---- MODULE Spec2Model ----
(***************************************************************************)
(* A model of src/app.py: the Octopus Agile fetcher, the Elexon system     *)
(* price fetcher, floor_to_half_hour, compute_cheapness and main.          *)
(*                                                                         *)
(* Prices are exact rationals <<n, d>> in lowest terms (d > 0); the code   *)
(* computes in binary floating point, whose rounding is not modelled.      *)
(* A timestamp is [utc |-> seconds since the epoch, off |-> UTC offset of  *)
(* its zone in seconds]; a "start" column produced by the fetchers is      *)
(* always UTC (pd.to_datetime(..., utc=True)) and is kept as the instant.  *)
(* A DataFrame is the sequence of its rows; the empty DataFrame is << >>.  *)
(***************************************************************************)
EXTENDS Integers, Sequences, FiniteSets, TLC

(* ---------------------------------------------------------------------- *)
(* Bounds of the model                                                     *)
(* ---------------------------------------------------------------------- *)
MaxInstant == 3700

MaxRows == 3

(* Sample inputs: the UTC offsets of three zones; records <<start, price>>  *)
(* at four instants in three half-hour slots (two instants share a slot)   *)
(* and three price levels.                                                 *)
Offsets == {0 - 12600, 0, 20700}

InputCells ==
    {<<0, 1>>, <<0, 3>>, <<900, 1>>, <<900, 3>>,
     <<1800, 1>>, <<1800, 2>>, <<3600, 1>>, <<3600, 3>>}

(* ---------------------------------------------------------------------- *)
(* Exact rational arithmetic                                               *)
(* ---------------------------------------------------------------------- *)
Abs(n) == IF n < 0 THEN 0 - n ELSE n

RECURSIVE GCD(_, _)
GCD(a, b) == IF b = 0 THEN a ELSE GCD(b, a % b)

Rat(n, d) ==
    LET s == IF d < 0 THEN 0 - 1 ELSE 1
        g == GCD(Abs(n), Abs(d))
    IN <<(s * n) \div g, (s * d) \div g>>

RatAdd(p, q) == Rat(p[1] * q[2] + q[1] * p[2], p[2] * q[2])

RatSub(p, q) == Rat(p[1] * q[2] - q[1] * p[2], p[2] * q[2])

RatMul(p, q) == Rat(p[1] * q[1], p[2] * q[2])

RatDiv(p, q) == Rat(p[1] * q[2], p[2] * q[1])

RatLt(p, q) == p[1] * q[2] < q[1] * p[2]

RatLe(p, q) == p[1] * q[2] <= q[1] * p[2]

RatMin(S) == CHOOSE x \in S : \A y \in S : RatLe(x, y)

RatMax(S) == CHOOSE x \in S : \A y \in S : RatLe(y, x)

RECURSIVE RatSum(_)
RatSum(s) == IF s = <<>> THEN Rat(0, 1) ELSE RatAdd(Head(s), RatSum(Tail(s)))

(* ---------------------------------------------------------------------- *)
(* floor_to_half_hour                                                      *)
(* ---------------------------------------------------------------------- *)
Minute(ts) == ((ts.utc + ts.off) \div 60) % 60

Second(ts) == (ts.utc + ts.off) % 60

FloorMinutesRounded(ts) == ((Minute(ts) + 15) \div 30) * 30

FloorMinutes(ts) == (Minute(ts) \div 30) * 30

FloorHour(ts) == [utc |-> ts.utc - ((ts.utc + ts.off) % 3600), off |-> ts.off]

FloorToHalfHour(ts) ==
    LET conv == [utc |-> ts.utc, off |-> 0]
        hour == FloorHour(conv)
    IN [utc |-> hour.utc + 60 * FloorMinutes(conv), off |-> hour.off]

Utc(instant) == [utc |-> instant, off |-> 0]

SlotOf(instant) == FloorToHalfHour(Utc(instant)).utc

(* ---------------------------------------------------------------------- *)
(* compute_cheapness                                                       *)
(* ---------------------------------------------------------------------- *)
HalfHour == 1800

RECURSIVE SortedInts(_)
SortedInts(S) ==
    IF S = {} THEN <<>>
    ELSE LET m == CHOOSE x \in S : \A y \in S : x <= y
         IN <<m>> \o SortedInts(S \ {m})

MaxInt(S) == CHOOSE x \in S : \A y \in S : y <= x

(* df["slot"] = floor_to_half_hour(df["start"]) *)
WithSlot(frame) ==
    [i \in DOMAIN frame |-> [row |-> frame[i], slot |-> SlotOf(frame[i].start)]]

RECURSIVE RowsOfSlot(_, _)
RowsOfSlot(slotted, slot) ==
    IF slotted = <<>> THEN <<>>
    ELSE (IF Head(slotted).slot = slot THEN <<Head(slotted).row>> ELSE <<>>)
         \o RowsOfSlot(Tail(slotted), slot)

GroupKeys(slotted) == SortedInts({slotted[i].slot : i \in DOMAIN slotted})

AggFirst(values) == Head(values)

(* the "mean" aggregation of a group *)
AggMean(values) == RatDiv(RatSum(values), Rat(Len(values), 1))

(* df_a.groupby("slot", as_index=False).agg({"agile_p_per_kwh": "mean", "end": "max"}) *)
GroupAgile(slotted) ==
    LET keys == GroupKeys(slotted)
    IN [k \in DOMAIN keys |->
          LET rows == RowsOfSlot(slotted, keys[k])
          IN [slot |-> keys[k],
              agile_p_per_kwh |-> AggMean([i \in DOMAIN rows |-> rows[i].agile_p_per_kwh]),
              end |-> MaxInt({rows[i].end : i \in DOMAIN rows})]]

(* df_s.groupby("slot", as_index=False).agg({"system_p_per_kwh": "mean"}) *)
GroupSystem(slotted) ==
    LET keys == GroupKeys(slotted)
    IN [k \in DOMAIN keys |->
          LET rows == RowsOfSlot(slotted, keys[k])
          IN [slot |-> keys[k],
              system_p_per_kwh |-> AggMean([i \in DOMAIN rows |-> rows[i].system_p_per_kwh])]]

Joined(l, r) ==
    [slot |-> l.slot, agile_p_per_kwh |-> l.agile_p_per_kwh, end |-> l.end,
     system_p_per_kwh |-> r.system_p_per_kwh]

RECURSIVE MatchRows(_, _)
MatchRows(l, right) ==
    IF right = <<>> THEN <<>>
    ELSE (IF Head(right).slot = l.slot THEN <<Joined(l, Head(right))>> ELSE <<>>)
         \o MatchRows(l, Tail(right))

(* a left join whose missing system prices are filled with 0 *)
RECURSIVE MergeLeftFill(_, _)
MergeLeftFill(left, right) ==
    IF left = <<>> THEN <<>>
    ELSE (IF MatchRows(Head(left), right) = <<>>
          THEN <<Joined(Head(left), [system_p_per_kwh |-> Rat(0, 1)])>>
          ELSE MatchRows(Head(left), right))
         \o MergeLeftFill(Tail(left), right)

(* pd.merge(df_a, df_s, on="slot", how="inner") *)
RECURSIVE MergeInner(_, _)
MergeInner(left, right) ==
    IF left = <<>> THEN <<>>
    ELSE MatchRows(Head(left), right) \o MergeInner(Tail(left), right)

Half == Rat(1, 2)

NormalisedZeroDefault(x, lo, hi) ==
    IF RatLt(lo, hi) THEN RatDiv(RatSub(x, lo), RatSub(hi, lo)) ELSE Rat(0, 1)

(* (x - min) / (max - min) if max > min else 0.5 *)
Normalised(x, lo, hi) ==
    IF RatLt(lo, hi) THEN RatDiv(RatSub(x, lo), RatSub(hi, lo)) ELSE Half

ScoreUnhalved(a, s) ==
    RatMul(Rat(100, 1), RatSub(RatSub(Rat(1, 1), a), RatMul(Half, s)))

(* 100 * (1 - 0.5 * agile_norm - 0.5 * system_norm) *)
Score(a, s) ==
    RatMul(Rat(100, 1),
           RatSub(RatSub(Rat(1, 1), RatMul(Half, a)), RatMul(Half, s)))

Column(frame, name) == {frame[i][name] : i \in DOMAIN frame}

(* lines 135-154: rename, normalise both columns, score, end = start + 30min *)
ScoredFrame(merged) ==
    LET a_min == RatMin(Column(merged, "agile_p_per_kwh"))
        a_max == RatMax(Column(merged, "agile_p_per_kwh"))
        s_min == RatMin(Column(merged, "system_p_per_kwh"))
        s_max == RatMax(Column(merged, "system_p_per_kwh"))
    IN [i \in DOMAIN merged |->
          LET an == Normalised(merged[i].agile_p_per_kwh, a_min, a_max)
              sn == Normalised(merged[i].system_p_per_kwh, s_min, s_max)
          IN [start |-> merged[i].slot,
              end |-> merged[i].slot + HalfHour,
              agile_p_per_kwh |-> merged[i].agile_p_per_kwh,
              system_p_per_kwh |-> merged[i].system_p_per_kwh,
              agile_norm |-> an,
              system_norm |-> sn,
              cheapness_score |-> Score(an, sn)]]

(* df[["start", "end", "agile_p_per_kwh", "system_p_per_kwh", "cheapness_score"]] *)
Selected(frame) ==
    [i \in DOMAIN frame |->
        [start |-> frame[i].start, end |-> frame[i].end,
         agile_p_per_kwh |-> frame[i].agile_p_per_kwh,
         system_p_per_kwh |-> frame[i].system_p_per_kwh,
         cheapness_score |-> frame[i].cheapness_score]]

(* compute_cheapness: the local frame df as it stands at the return, and   *)
(* the returned frame.                                                     *)
ComputeCheapness(a, s) ==
    IF a = <<>> \/ s = <<>>
    THEN [df |-> <<>>, ret |-> <<>>]
    ELSE LET merged == MergeInner(GroupAgile(WithSlot(a)), GroupSystem(WithSlot(s)))
         IN IF merged = <<>>
            THEN [df |-> <<>>, ret |-> <<>>]
            ELSE [df |-> ScoredFrame(merged), ret |-> Selected(ScoredFrame(merged))]

(* ---------------------------------------------------------------------- *)
(* get_agile_prices                                                        *)
(* ---------------------------------------------------------------------- *)
(* A URL is the index of the page it serves; the falsy values of           *)
(* data.get("next") are None (0) and the empty string (-1).                *)
BaseUrl == 1

NoNext == 0

EmptyNext == -1

Truthy(u) == u > 0

(* params=params if not results else None *)
SendsParams(res) == res = <<>>

ExtendReplaced(res, data) == data.results

(* results.extend(data.get("results", [])) *)
Extend(res, data) == res \o data.results

(* the position of row i once the frame is sorted by start; rows of equal   *)
(* start keep their order                                                  *)
Rank(frame, i) ==
    1 + Cardinality({j \in DOMAIN frame :
                        \/ frame[j].start < frame[i].start
                        \/ (frame[j].start = frame[i].start /\ j < i)})

(* df.sort_values("start").reset_index(drop=True) *)
SortByStart(frame) ==
    [k \in DOMAIN frame |-> frame[CHOOSE i \in DOMAIN frame : Rank(frame, i) = k]]

AgileRow(rec) ==
    [start |-> rec.valid_from, end |-> rec.valid_to,
     agile_p_per_kwh |-> Rat(rec.value_inc_vat, 1)]

(* lines 41-46; pd.DataFrame([])["valid_from"] raises KeyError *)
BuildAgileFrame(res) ==
    IF res = <<>> THEN [exc |-> "KeyError", frame |-> <<>>]
    ELSE [exc |-> "none",
          frame |-> SortByStart([i \in DOMAIN res |-> AgileRow(res[i])])]

AgileFrameUnguarded(res) == BuildAgileFrame(res)

(* lines 38-46 *)
AgileFrame(res) ==
    IF res = <<>> THEN [exc |-> "none", frame |-> <<>>]
    ELSE BuildAgileFrame(res)

(* ---------------------------------------------------------------------- *)
(* get_system_prices_today_and_tomorrow                                    *)
(* ---------------------------------------------------------------------- *)
Days == 2

SystemRow(item) ==
    [start |-> item.startTime,
     system_p_per_kwh |-> Rat(item.systemSellPrice * 100, 1000)]

RECURSIVE Concat(_)
Concat(frames) ==
    IF frames = <<>> THEN <<>> ELSE Head(frames) \o Concat(Tail(frames))

(* lines 82-90 *)
SystemFrame(frames) ==
    IF frames = <<>> THEN <<>>
    ELSE LET all == Concat(frames)
         IN SortByStart([i \in DOMAIN all |-> SystemRow(all[i])])

(* ---------------------------------------------------------------------- *)
(* main                                                                    *)
(* ---------------------------------------------------------------------- *)
(* if agile_df.empty: (line 208) *)
AgileNeverEmpty(frame) == FALSE

AgileIsEmpty(frame) == frame = <<>>

(* if system_df.empty: (line 220) *)
SystemIsEmpty(frame) == frame = <<>>

(* if cheap_df.empty: (line 229) *)
CheapIsEmpty(frame) == frame = <<>>

(* ---------------------------------------------------------------------- *)
(* State                                                                   *)
(* ---------------------------------------------------------------------- *)
VARIABLES
    pc,               \* where the run stands
    session_run,      \* st.session_state["run"]
    octopus,          \* the Octopus pages, by URL
    elexon,           \* the Elexon response of each day
    url,              \* get_agile_prices: url
    results,          \* get_agile_prices: results
    requests,         \* the requests sent to Octopus, in order
    day,              \* get_system_prices_today_and_tomorrow: position in dates
    dfs,              \* get_system_prices_today_and_tomorrow: dfs
    elexon_requests,  \* the days requested from Elexon, in order
    agile_df,
    system_df,
    df,               \* compute_cheapness: df at its return
    cheap_df,
    exc,              \* the exception a callee raised, "none" if none
    out,              \* the Streamlit calls made, in order
    calls,            \* the functions main called, in order
    ts,               \* floor_to_half_hour: its argument
    floored           \* floor_to_half_hour: its result

vars == <<pc, session_run, octopus, elexon, url, results, requests, day, dfs,
          elexon_requests, agile_df, system_df, df, cheap_df, exc, out, calls,
          ts, floored>>

(* ---------------------------------------------------------------------- *)
(* Inputs                                                                  *)
(* ---------------------------------------------------------------------- *)
AgileRecEarly == [valid_from |-> 0, valid_to |-> 1800, value_inc_vat |-> 1]

AgileRecLate == [valid_from |-> 1800, valid_to |-> 3600, value_inc_vat |-> 3]

PageSamples == {<<>>, <<AgileRecEarly>>, <<AgileRecLate, AgileRecEarly>>}

OkPage(res, next) == [kind |-> "ok", results |-> res, next |-> next]

LastPages ==
    {OkPage(res, next) : res \in PageSamples, next \in {NoNext, EmptyNext}}
    \cup {[kind |-> "http_error", results |-> <<>>, next |-> NoNext]}

(* the chains of at most MaxPages pages: page i points to page i + 1, the  *)
(* last page carries no next pointer or fails                              *)
MaxPages == 3

Chains ==
    UNION {{c \in [1..n -> LastPages \cup {OkPage(res, k) : res \in PageSamples, k \in 2..MaxPages}] :
              /\ c[n] \in LastPages
              /\ \A i \in 1..(n - 1) :
                    c[i] \in {OkPage(res, i + 1) : res \in PageSamples}}
           : n \in 1..MaxPages}

ItemSecond == [startTime |-> 1800, systemSellPrice |-> 50]

ItemFirst == [startTime |-> 900, systemSellPrice |-> 120]

ItemSamples == {<<>>, <<ItemSecond>>, <<ItemSecond, ItemFirst>>}

DayResponses ==
    {[kind |-> "ok", items |-> it] : it \in ItemSamples}
    \cup {[kind |-> k, items |-> <<>>] : k \in {"exception", "http_error", "bad_json"}}

Failed(resp) == resp.kind # "ok"

(* the frames compute_cheapness is called with directly: at most MaxRows   *)
(* rows each, in ascending order of start as the fetchers leave them       *)
CellLe(c, d) == c[1] < d[1] \/ (c[1] = d[1] /\ c[2] <= d[2])

SortedCells ==
    UNION {{c \in [1..n -> InputCells] : \A i \in 1..(n - 1) : CellLe(c[i], c[i + 1])}
           : n \in 0..MaxRows}

AgileInput(c) ==
    [i \in DOMAIN c |->
        AgileRow([valid_from |-> c[i][1], valid_to |-> c[i][1] + HalfHour,
                  value_inc_vat |-> c[i][2]])]

SystemInput(c) ==
    [i \in DOMAIN c |-> SystemRow([startTime |-> c[i][1], systemSellPrice |-> c[i][2]])]

(* ---------------------------------------------------------------------- *)
(* Initial states: main is run, or compute_cheapness or floor_to_half_hour *)
(* is called on its own                                                    *)
(* ---------------------------------------------------------------------- *)
NoUpstream ==
    /\ octopus = <<>>
    /\ elexon = <<>>

Locals ==
    /\ url = NoNext
    /\ results = <<>>
    /\ requests = <<>>
    /\ day = 1
    /\ dfs = <<>>
    /\ elexon_requests = <<>>
    /\ df = <<>>
    /\ cheap_df = <<>>
    /\ exc = "none"
    /\ out = <<>>
    /\ calls = <<>>
    /\ floored = Utc(0)

InitMain ==
    /\ pc = "main"
    /\ session_run \in BOOLEAN
    /\ octopus \in Chains
    /\ elexon \in [1..Days -> DayResponses]
    /\ agile_df = <<>>
    /\ system_df = <<>>
    /\ ts = Utc(0)
    /\ Locals

InitCompute ==
    /\ pc = "compute_call"
    /\ session_run = FALSE
    /\ NoUpstream
    /\ \E a \in SortedCells : agile_df = AgileInput(a)
    /\ \E s \in SortedCells : system_df = SystemInput(s)
    /\ ts = Utc(0)
    /\ Locals

InitFloor ==
    /\ pc = "floor_call"
    /\ session_run = FALSE
    /\ NoUpstream
    /\ agile_df = <<>>
    /\ system_df = <<>>
    /\ ts \in [utc : 0..MaxInstant, off : Offsets]
    /\ Locals

Init == InitMain \/ InitCompute \/ InitFloor

(* ---------------------------------------------------------------------- *)
(* Actions                                                                 *)
(* ---------------------------------------------------------------------- *)
Say(msg) == out' = Append(out, msg)

(* main, lines 161-203: the sidebar, the session flag, the call of         *)
(* get_agile_prices up to its first request                                *)
MainStart ==
    /\ pc = "main"
    /\ \E clicked \in BOOLEAN :
          /\ session_run' = (session_run \/ clicked)
          /\ IF ~session_run'
             THEN /\ Say("info")
                  /\ pc' = "done"
                  /\ UNCHANGED <<calls, url, results>>
             ELSE /\ calls' = Append(calls, "get_agile_prices")
                  /\ url' = BaseUrl
                  /\ results' = <<>>
                  /\ pc' = "agile_request"
                  /\ UNCHANGED out
    /\ UNCHANGED <<octopus, elexon, requests, day, dfs, elexon_requests, agile_df,
                   system_df, df, cheap_df, exc, ts, floored>>

(* get_agile_prices, lines 31-36: one pass of the loop; an exception       *)
(* leaves through main's handler, lines 204-206                            *)
AgileRequest ==
    /\ pc = "agile_request"
    /\ Truthy(url)
    /\ requests' = Append(requests, [url |-> url, params |-> SendsParams(results)])
    /\ LET data == octopus[url]
       IN IF data.kind # "ok"
          THEN /\ exc' = "HTTPError"
               /\ Say("error_agile")
               /\ pc' = "done"
               /\ UNCHANGED <<results, url>>
          ELSE /\ results' = Extend(results, data)
               /\ url' = data.next
               /\ pc' = IF Truthy(data.next) THEN "agile_request" ELSE "agile_return"
               /\ UNCHANGED <<exc, out>>
    /\ UNCHANGED <<session_run, octopus, elexon, day, dfs, elexon_requests, agile_df,
                   system_df, df, cheap_df, calls, ts, floored>>

(* get_agile_prices, lines 38-46, and main, lines 204-215: the frame is    *)
(* built and returned, main stops on an empty frame or calls               *)
(* get_system_prices_today_and_tomorrow (lines 56-65)                      *)
AgileReturn ==
    /\ pc = "agile_return"
    /\ LET r == AgileFrame(results)
       IN IF r.exc # "none"
          THEN /\ exc' = r.exc
               /\ Say("error_agile")
               /\ pc' = "done"
               /\ UNCHANGED <<agile_df, calls, day, dfs>>
          ELSE /\ agile_df' = r.frame
               /\ exc' = exc
               /\ IF AgileIsEmpty(r.frame)
                  THEN /\ Say("warning_agile")
                       /\ pc' = "done"
                       /\ UNCHANGED <<calls, day, dfs>>
                  ELSE /\ calls' = Append(calls, "get_system_prices_today_and_tomorrow")
                       /\ day' = 1
                       /\ dfs' = <<>>
                       /\ pc' = "system_request"
                       /\ UNCHANGED out
    /\ UNCHANGED <<session_run, octopus, elexon, url, results, requests,
                   elexon_requests, system_df, df, cheap_df, ts, floored>>

(* get_system_prices_today_and_tomorrow, lines 66-80: one day of the loop; *)
(* r.json() stands outside the try, its exception leaves through main's    *)
(* handler, lines 216-218                                                  *)
SystemRequest ==
    /\ pc = "system_request"
    /\ day <= Days
    /\ elexon_requests' = Append(elexon_requests, day)
    /\ LET r == elexon[day]
       IN IF r.kind = "bad_json"
          THEN /\ exc' = "JSONDecodeError"
               /\ Say("error_system")
               /\ pc' = "done"
               /\ UNCHANGED <<day, dfs>>
          ELSE /\ dfs' = IF r.kind = "ok" /\ r.items # <<>> THEN Append(dfs, r.items) ELSE dfs
               /\ day' = day + 1
               /\ pc' = IF day = Days THEN "system_return" ELSE "system_request"
               /\ UNCHANGED <<exc, out>>
    /\ UNCHANGED <<session_run, octopus, elexon, url, results, requests, agile_df,
                   system_df, df, cheap_df, calls, ts, floored>>

(* get_system_prices_today_and_tomorrow, lines 82-90, and main, lines      *)
(* 220-225                                                                 *)
SystemReturn ==
    /\ pc = "system_return"
    /\ system_df' = SystemFrame(dfs)
    /\ IF SystemIsEmpty(system_df')
       THEN /\ Say("warning_system")
            /\ pc' = "done"
       ELSE /\ Say("write")
            /\ pc' = "compute"
    /\ UNCHANGED <<session_run, octopus, elexon, url, results, requests, day, dfs,
                   elexon_requests, agile_df, df, cheap_df, exc, calls, ts, floored>>

(* main, lines 228-231 *)
MainCompute ==
    /\ pc = "compute"
    /\ calls' = Append(calls, "compute_cheapness")
    /\ LET r == ComputeCheapness(agile_df, system_df)
       IN /\ df' = r.df
          /\ cheap_df' = r.ret
          /\ IF CheapIsEmpty(r.ret)
             THEN /\ Say("warning_compute")
                  /\ pc' = "done"
             ELSE /\ pc' = "render"
                  /\ UNCHANGED out
    /\ UNCHANGED <<session_run, octopus, elexon, url, results, requests, day, dfs,
                   elexon_requests, agile_df, system_df, exc, ts, floored>>

(* main, lines 233-279: the table, the two charts, the caption *)
Render ==
    /\ pc = "render"
    /\ out' = out \o <<"dataframe", "line_chart", "area_chart", "caption">>
    /\ pc' = "done"
    /\ UNCHANGED <<session_run, octopus, elexon, url, results, requests, day, dfs,
                   elexon_requests, agile_df, system_df, df, cheap_df, exc, calls,
                   ts, floored>>

(* compute_cheapness called on its own *)
ComputeCall ==
    /\ pc = "compute_call"
    /\ LET r == ComputeCheapness(agile_df, system_df)
       IN /\ df' = r.df
          /\ cheap_df' = r.ret
    /\ pc' = "compute_returned"
    /\ UNCHANGED <<session_run, octopus, elexon, url, results, requests, day, dfs,
                   elexon_requests, agile_df, system_df, exc, out, calls, ts, floored>>

(* floor_to_half_hour called on its own *)
FloorCall ==
    /\ pc = "floor_call"
    /\ floored' = FloorToHalfHour(ts)
    /\ pc' = "floor_returned"
    /\ UNCHANGED <<session_run, octopus, elexon, url, results, requests, day, dfs,
                   elexon_requests, agile_df, system_df, df, cheap_df, exc, out,
                   calls, ts>>

NextMain ==
    \/ MainStart
    \/ AgileRequest
    \/ AgileReturn
    \/ SystemRequest
    \/ SystemReturn
    \/ MainCompute
    \/ Render

Next ==
    \/ NextMain
    \/ ComputeCall
    \/ FloorCall

Spec == Init /\ [][Next]_vars

(* a run of main in which get_agile_prices makes progress: every request  *)
(* is answered or times out (timeout=15), and the script is sequential     *)
FairSpec ==
    /\ InitMain
    /\ [][NextMain]_vars
    /\ WF_vars(AgileRequest)
    /\ WF_vars(AgileReturn)

(* ---------------------------------------------------------------------- *)
(* Properties                                                              *)
(* ---------------------------------------------------------------------- *)
Range(s) == {s[i] : i \in DOMAIN s}

Zero == <<0, 1>>

One == <<1, 1>>

Hundred == <<100, 1>>

(* compute_cheapness has returned, called by main or on its own *)
Computed == pc = "compute_returned" \/ "compute_cheapness" \in Range(calls)

(* the half-hour slots of a frame's start column, by plain arithmetic *)
SlotSet(frame) == {frame[i].start - (frame[i].start % 1800) : i \in DOMAIN frame}

InSlot(frame, slot) ==
    {i \in DOMAIN frame : slot <= frame[i].start /\ frame[i].start < slot + 1800}

RECURSIVE SumOver(_, _, _)
SumOver(frame, name, I) ==
    IF I = {} THEN Zero
    ELSE LET i == CHOOSE x \in I : TRUE
         IN RatAdd(frame[i][name], SumOver(frame, name, I \ {i}))

Count(s, x) == Cardinality({i \in DOMAIN s : s[i] = x})

IsPermutation(a, b) ==
    /\ Len(a) = Len(b)
    /\ \A x \in Range(a) \cup Range(b) : Count(a, x) = Count(b, x)

(* C1: every row compute_cheapness returns has a cheapness_score in        *)
(* [0, 100]; the score is 100 exactly when agile_norm and system_norm are  *)
(* both 0, and 0 exactly when both are 1.                                  *)
C1_ScoreBounds ==
    /\ Len(df) = Len(cheap_df)
    /\ \A i \in DOMAIN cheap_df :
          LET score == cheap_df[i].cheapness_score
          IN /\ df[i].start = cheap_df[i].start
             /\ RatLe(Zero, score)
             /\ RatLe(score, Hundred)
             /\ (score = Hundred) <=> (df[i].agile_norm = Zero /\ df[i].system_norm = Zero)
             /\ (score = Zero) <=> (df[i].agile_norm = One /\ df[i].system_norm = One)

C1_Witness ==
    /\ pc = "compute_returned"
    /\ \E i, j, k \in DOMAIN cheap_df :
          /\ cheap_df[i].cheapness_score = Hundred
          /\ cheap_df[j].cheapness_score = Zero
          /\ cheap_df[k].cheapness_score = <<75, 1>>
          /\ df[k].agile_norm = Zero
          /\ df[k].system_norm = Half

(* C2: over the aligned rows, a series whose values are all identical (a   *)
(* single row included) is normalised to exactly 0.5 on every row;         *)
(* otherwise a value x is normalised to (x - min) / (max - min), the       *)
(* minimum to 0 and the maximum to 1.                                      *)
NormalisedAsClaimed(frame, price, norm) ==
    \A i \in DOMAIN frame :
       LET values == {frame[j][price] : j \in DOMAIN frame}
           lo == RatMin(values)
           hi == RatMax(values)
           x == frame[i][price]
       IN IF Cardinality(values) = 1
          THEN frame[i][norm] = Half
          ELSE /\ RatMul(frame[i][norm], RatSub(hi, lo)) = RatSub(x, lo)
               /\ (x = lo) => frame[i][norm] = Zero
               /\ (x = hi) => frame[i][norm] = One

C2_Normalisation ==
    /\ NormalisedAsClaimed(df, "agile_p_per_kwh", "agile_norm")
    /\ NormalisedAsClaimed(df, "system_p_per_kwh", "system_norm")

C2_Witness ==
    /\ pc = "compute_returned"
    /\ Len(df) = 3
    /\ \A i \in DOMAIN df : df[i].agile_norm = Half
    /\ Cardinality({df[i].agile_p_per_kwh : i \in DOMAIN df}) = 1
    /\ {df[i].system_norm : i \in DOMAIN df} = {Zero, Half, One}

(* C3: the slots of the rows compute_cheapness returns are exactly the     *)
(* half-hour slots present in both the Agile and the system-price series.  *)
C3_InnerJoin ==
    Computed =>
        {cheap_df[i].start : i \in DOMAIN cheap_df}
            = SlotSet(agile_df) \cap SlotSet(system_df)

C3_Witness ==
    /\ Computed
    /\ cheap_df # <<>>
    /\ SlotSet(agile_df) \ SlotSet(system_df) # {}
    /\ SlotSet(system_df) \ SlotSet(agile_df) # {}

(* C4: the returned frame has at most one row per slot, and the row's      *)
(* price for each series is the arithmetic mean of all of that series'     *)
(* records in the slot.                                                    *)
C4_SlotMean ==
    Computed =>
        /\ \A i, j \in DOMAIN cheap_df :
              cheap_df[i].start = cheap_df[j].start => i = j
        /\ \A i \in DOMAIN cheap_df :
              LET A == InSlot(agile_df, cheap_df[i].start)
                  S == InSlot(system_df, cheap_df[i].start)
              IN /\ RatMul(cheap_df[i].agile_p_per_kwh, <<Cardinality(A), 1>>)
                       = SumOver(agile_df, "agile_p_per_kwh", A)
                 /\ RatMul(cheap_df[i].system_p_per_kwh, <<Cardinality(S), 1>>)
                       = SumOver(system_df, "system_p_per_kwh", S)

C4_Witness ==
    /\ pc = "compute_returned"
    /\ Len(cheap_df) = 2
    /\ \E i \in DOMAIN cheap_df :
          /\ Cardinality(InSlot(agile_df, cheap_df[i].start)) = 2
          /\ cheap_df[i].agile_p_per_kwh = <<2, 1>>
          /\ \E m, n \in InSlot(agile_df, cheap_df[i].start) :
                /\ agile_df[m].agile_p_per_kwh = <<1, 1>>
                /\ agile_df[n].agile_p_per_kwh = <<3, 1>>
          /\ Cardinality(InSlot(system_df, cheap_df[i].start)) = 2
          /\ cheap_df[i].system_p_per_kwh = <<1, 5>>

(* C5: floor_to_half_hour(t) has minute 0 or 30 and zero seconds, and      *)
(* floor_to_half_hour(t) <= t < floor_to_half_hour(t) + 30 minutes.        *)
C5_Floor ==
    pc = "floor_returned" =>
        /\ Minute(floored) \in {0, 30}
        /\ Second(floored) = 0
        /\ floored.utc <= ts.utc
        /\ ts.utc < floored.utc + 1800

C5_Witness ==
    /\ pc = "floor_returned"
    /\ ts = [utc |-> 2707, off |-> 20700]
    /\ floored = [utc |-> 1800, off |-> 0]

(* get_agile_prices has been left: by its return or by an exception *)
AgileLeft == calls # <<>> /\ pc \notin {"main", "agile_request", "agile_return"}

AgileFailed == "error_agile" \in Range(out)

(* get_system_prices_today_and_tomorrow has been left *)
SystemLeft ==
    /\ "get_system_prices_today_and_tomorrow" \in Range(calls)
    /\ pc \notin {"system_request", "system_return"}

(* C6: compute_cheapness returns an empty frame, and raises nothing, when  *)
(* either series is empty or the two share no half-hour slot; each fetcher *)
(* returns an empty frame, and raises nothing, when the upstream returns   *)
(* zero records.                                                           *)
C6_EmptyPropagates ==
    /\ (Computed /\ (\/ agile_df = <<>>
                     \/ system_df = <<>>
                     \/ SlotSet(agile_df) \cap SlotSet(system_df) = {}))
          => (cheap_df = <<>> /\ exc = "none")
    /\ (AgileLeft /\ \A i \in DOMAIN requests :
                        /\ octopus[requests[i].url].kind = "ok"
                        /\ octopus[requests[i].url].results = <<>>)
          => (agile_df = <<>> /\ exc = "none" /\ ~AgileFailed)
    /\ (SystemLeft /\ \A d \in 1..Days : elexon[d].kind = "ok" /\ elexon[d].items = <<>>)
          => (system_df = <<>> /\ exc = "none" /\ out = <<"warning_system">>)

C6_Witness ==
    /\ pc = "done"
    /\ Len(requests) = 3
    /\ \A i \in DOMAIN requests :
          /\ octopus[requests[i].url].kind = "ok"
          /\ octopus[requests[i].url].results = <<>>
    /\ agile_df = <<>>
    /\ out = <<"warning_agile">>

(* C7: if the fetch of one day fails (request exception, HTTP error        *)
(* status, malformed payload) and the other day's fetch succeeds with      *)
(* records, get_system_prices_today_and_tomorrow returns the records of    *)
(* the successful day.                                                     *)
C7_PartialFailure ==
    \A d \in 1..Days :
       (/\ SystemLeft
        /\ Failed(elexon[d])
        /\ \A e \in (1..Days) \ {d} : elexon[e].kind = "ok" /\ elexon[e].items # <<>>)
          => /\ exc = "none"
             /\ \A e \in (1..Days) \ {d} :
                   IsPermutation(system_df,
                                 [i \in DOMAIN elexon[e].items |-> SystemRow(elexon[e].items[i])])

(* C8: get_agile_prices requests the pages one by one in the order of      *)
(* their next pointers, from the base URL to the first response without a  *)
(* non-empty next; the frame it returns holds exactly the records of all   *)
(* those pages; and it always leaves its loop, the chain being finite.     *)
PagesFollowed ==
    /\ requests # <<>>
    /\ requests[1].url = BaseUrl
    /\ \A i \in 1..(Len(requests) - 1) :
          /\ Truthy(octopus[requests[i].url].next)
          /\ requests[i + 1].url = octopus[requests[i].url].next
    /\ ~Truthy(octopus[requests[Len(requests)].url].next)

AllRecords ==
    Concat([i \in DOMAIN requests |-> octopus[requests[i].url].results])

C8_Pagination ==
    /\ []((AgileLeft /\ ~AgileFailed) =>
             /\ PagesFollowed
             /\ IsPermutation(agile_df, [i \in DOMAIN AllRecords |-> AgileRow(AllRecords[i])]))
    /\ ((pc = "agile_request") ~> AgileLeft)

C8_Witness ==
    /\ AgileLeft
    /\ ~AgileFailed
    /\ Len(requests) = 3
    /\ Len(agile_df) = 4
    /\ octopus[2].results = <<AgileRecEarly>>

(* C9: the query parameters go with the first request only; no request to  *)
(* a continuation URL carries them.                                        *)
C9_ParamsOnce ==
    \A i \in DOMAIN requests :
       requests[i].params <=> (i = 1)

(* C10: the table and charts are rendered only after the Agile fetch, the  *)
(* system-price fetch and compute_cheapness, in this order, each gave a    *)
(* non-empty result without exception; otherwise main reports one message  *)
(* and makes no later step.                                                *)
AllCalls ==
    <<"get_agile_prices", "get_system_prices_today_and_tomorrow", "compute_cheapness">>

Rendered == "dataframe" \in Range(out)

Messages ==
    SelectSeq(out, LAMBDA m : m \in {"info", "error_agile", "warning_agile", "error_system",
                                     "warning_system", "warning_compute"})

C10_MainOrder ==
    /\ calls = SubSeq(AllCalls, 1, Len(calls))
    /\ Len(calls) >= 2 => (agile_df # <<>> /\ ~AgileFailed)
    /\ Len(calls) >= 3 => (system_df # <<>> /\ exc = "none")
    /\ Rendered =>
          /\ calls = AllCalls
          /\ cheap_df # <<>>
          /\ Messages = <<>>
    /\ (pc = "done" /\ ~Rendered) =>
          /\ Len(Messages) = 1
          /\ Messages[1] = out[Len(out)]
          /\ Messages[1] = "info" => (calls = <<>> /\ requests = <<>>)
          /\ Messages[1] \in {"error_agile", "warning_agile"} =>
                (Len(calls) = 1 /\ elexon_requests = <<>>)
          /\ Messages[1] \in {"error_system", "warning_system"} => Len(calls) = 2
          /\ Messages[1] = "warning_compute" => (calls = AllCalls /\ cheap_df = <<>>)

C10_Witness ==
    /\ pc = "done"
    /\ Rendered
    /\ Len(requests) = 2
    /\ Len(elexon_requests) = 2
    /\ Len(cheap_df) = 2

====
